---- MODULE Spec2Model ----
(***************************************************************************)
(* Model of the PyTorch inference launcher of dl-benchmark                 *)
(* (src/inference/inference_pytorch.py): the single-shot and looped        *)
(* execution of inference_pytorch, the per-iteration step                  *)
(* inference_iteration / infer_slice, the output formatter prepare_output  *)
(* and the token counter get_meaning_tokens_from_batch.                    *)
(*                                                                         *)
(* The aggregation of the samples and main around the run are modelled as  *)
(* far as the properties below need them.                                  *)
(*                                                                         *)
(* Time is an integer clock; one unit is half a second.  The model and     *)
(* the data source are stubs: within a run every call of the model takes   *)
(* call_cost and every get_slice takes slice_cost.                         *)
(***************************************************************************)
EXTENDS Integers, Sequences, FiniteSets, TLC

VARIABLES
    pc,                  \* position of the run / which operation is pending
    task_type,           \* inference_pytorch(task_type=...)
    num_iterations,      \* inference_pytorch(num_iterations=...)
    test_duration,       \* inference_pytorch(test_duration=...)
    device,              \* device.type
    input_names,         \* declared input names
    slice_cost,          \* time one get_slice() call takes
    call_cost,           \* time one call of the model takes
    gen_len,             \* tokens the model generates per call
    clip_len,            \* length of the audio clips get_slice hands out
    now,                 \* the wall clock read by time()
    output,              \* local `output` of inference_pytorch / `result` of prepare_output
    time_infer,          \* latencies, one per sample
    num_tokens,          \* generated-token counts
    audios_lengths,      \* audio durations
    audio_sampling_rate, \* sampling rate of the processor, 0 stands for None
    input_size,          \* prompt length fixed before the dispatch
    iteration,           \* iterations completed by the loop
    time_start,          \* clock value when the loop started
    encodings_dict,      \* first batch of a generative task, encoded before the dispatch
    inputs,              \* inputs prepared for the pending invocation
    res,                 \* value returned by the last infer_slice
    events,              \* log of get_slice / synchronize / model calls
    raised,              \* exception that left the operation, "" when none
    input_kwarg_name,    \* keyword the inputs are passed under, "" stands for None
    audio_length,        \* audio length of the pending iteration, 0 stands for None
    exec_time,           \* latency measured around the last infer_slice
    iter_result,         \* dict returned by the last inference_iteration
    loop_results,        \* what the loop has accumulated
    output_names,        \* prepare_output(output_names=...)
    display,             \* outcome of prepare_output
    generated_output,    \* get_meaning_tokens_from_batch(generated_output=...)
    batch_size,          \* args.batch_size
    metrics,             \* outcome of the aggregation of the samples
    raw_output,          \* args.raw_output
    log,                 \* levels of the messages main has logged
    args,                \* what TensorFlowParameters(...) is called with
    self                 \* fields of the TensorFlowParameters under construction

vars == <<pc, task_type, num_iterations, test_duration, device, input_names,
          slice_cost, call_cost, gen_len, clip_len, now, output, time_infer, num_tokens, audios_lengths,
          audio_sampling_rate, input_size, iteration, time_start, encodings_dict, inputs, res,
          events, raised, input_kwarg_name, audio_length, exec_time, iter_result,
          loop_results, output_names, display, generated_output, batch_size, metrics,
          raw_output, log, args, self>>

(***************************************************************************)
(* Bounds of the model.                                                    *)
(***************************************************************************)
MaxIter == 3          \* largest configured iteration count
MaxDuration == 3      \* largest configured duration (half seconds)
MaxCallTime == 2      \* longest model call (half seconds)
MaxSliceCost == 1     \* longest get_slice call (half seconds)
MaxInputs == 2        \* most declared input names
MaxPrompt == 3        \* longest tokenized prompt
MaxGen == 1           \* most tokens generated beyond the prompt
MaxBatch == 2         \* most rows of a generated grid
MaxWidth == 3         \* widest generated grid
MaxLoop == 3          \* iterations whose samples are tracked; later ones leave no trace
MaxAudio == 2         \* longest audio clip
MaxShapeLen == 5      \* longest input shape string tried in full
MaxNames == 2         \* most declared output names

(***************************************************************************)
(* Program constants.                                                      *)
(***************************************************************************)
DOT_TOKEN == 2        \* dot_token=2, the filler of generated grids
MAX_TEXT_LEN == 5     \* configs.onnx_configs.gpt_2.MAX_TEXT_LEN (stand-in value)
SAMPLING_RATE == 16   \* processor.feature_extractor.sampling_rate (stand-in value)

\* The task types the launcher dispatches on (choices of --task).
SupportedTasks ==
    {"feedforward", "classification", "text-to-image", "named-entity-recognition",
     "yolo_v7", "text-generation", "batch-text-generation", "text-translation",
     "speech-to-text"}

\* A task type string outside the supported set.
UnsupportedTasks == {"segmentation"}

AllTasks == SupportedTasks \cup UnsupportedTasks

(***************************************************************************)
(* Values.  Every Python value is a record with a tag t.                   *)
(***************************************************************************)
NoneVal == [t |-> "None", call |-> 0, dev |-> "", fn |-> ""]

\* What the model returns for the k-th call, by task type.
ModelReturn(task, k) ==
    CASE task \in {"classification", "feedforward"} -> [t |-> "tensor", call |-> k, dev |-> "device", fn |-> "raw"]
      [] task = "yolo_v7" -> [t |-> "tuple_of_tensors", call |-> k, dev |-> "device", fn |-> "raw"]
      [] task = "text-to-image" -> [t |-> "pipeline_output", call |-> k, dev |-> "device", fn |-> "raw"]
      [] task = "text-translation" -> [t |-> "translated_batch", call |-> k, dev |-> "device", fn |-> "raw"]
      [] task = "named-entity-recognition" -> [t |-> "logits", call |-> k, dev |-> "device", fn |-> "raw"]
      [] task = "batch-text-generation" -> [t |-> "token_ids", call |-> k, dev |-> "device", fn |-> "raw"]
      [] OTHER -> NoneVal

\* torch.nn.functional.softmax(x, dim=1).to('cpu')
SoftmaxCpu(x) == [x EXCEPT !.fn = "softmax", !.dev = "cpu"]

\* x[0].to('cpu')
FirstCpu(x) == [t |-> "tensor", call |-> x.call, dev |-> "cpu", fn |-> "first"]

\* decode(tokenizer, ...) of the text generation / speech configs
DecodeText(x) == [t |-> "text", call |-> x.call, dev |-> "cpu", fn |-> "decode"]

\* (tokens, label_indices) of bert_base_ner.decode
DecodeNer(x) == [t |-> "tokens_labels", call |-> x.call, dev |-> "cpu", fn |-> "decode"]

\* result.detach().numpy()
DetachNumpy(x) == [t |-> "ndarray", call |-> x.call, dev |-> "cpu", fn |-> x.fn]

\* result.images
Images(x) == [t |-> "images", call |-> x.call, dev |-> "cpu", fn |-> x.fn]

\* get_decode_result(tokens, label_indices)
GetDecodeResult(x) == [t |-> "decoded_entities", call |-> x.call, dev |-> "cpu", fn |-> x.fn]

\* Width of the grids the generation entry points return.
GenWidth == MaxPrompt + MaxGen + 1

\* A generated grid: one row of k tokens (prompt and generated ones), padded
\* with the filler to the fixed width.
GenRow(k) == [j \in 1..GenWidth |-> IF j <= k THEN 5 ELSE DOT_TOKEN]

GenGrid(call, k) == [t |-> "grid", call |-> call, rows |-> <<GenRow(k)>>]

(***************************************************************************)
(* get_meaning_tokens_from_batch                                           *)
(***************************************************************************)
RECURSIVE RowLengthUntilDot(_, _, _, _)
\* the inner loop, had it stopped at the first filler token
RowLengthUntilDot(row, j, length, dot_token) ==
    IF j > Len(row) \/ row[j] = dot_token THEN length
    ELSE RowLengthUntilDot(row, j + 1, length + 1, dot_token)

RECURSIVE RowLength(_, _, _, _)
\* the inner loop over j: length after scanning positions j..shape[1]
RowLength(row, j, length, dot_token) ==
    IF j > Len(row) THEN length
    ELSE RowLength(row, j + 1,
                   IF row[j] # dot_token THEN length + 1 ELSE length,
                   dot_token)

RECURSIVE RowLengths(_, _, _, _, _)
\* the outer loop over i: lengths.append(length - input_size)
RowLengths(rows, i, lengths, size, dot_token) ==
    IF i > Len(rows) THEN lengths
    ELSE RowLengths(rows, i + 1,
                    Append(lengths, RowLength(rows[i], 1, 1, dot_token) - size),
                    size, dot_token)

\* the counter, had it left the prompt length out
get_meaning_tokens_with_prompt(grid, size, dot_token) ==
    RowLengths(grid.rows, 1, <<>>, 0, dot_token)

get_meaning_tokens_from_batch(grid, size, dot_token) ==
    RowLengths(grid.rows, 1, <<>>, size, dot_token)

(***************************************************************************)
(* prepare_output                                                          *)
(***************************************************************************)
NoNames == [isNone |-> TRUE, names |-> <<>>]

Names(s) == [isNone |-> FALSE, names |-> s]

Raise(exc, why) == [status |-> "raise", exc |-> exc, why |-> why,
                    value |-> [t |-> "nothing", keys |-> <<>>, vals |-> <<>>, of |-> NoneVal]]

Return(kind, keys, vals, of) ==
    [status |-> "return", exc |-> "", why |-> "",
     value |-> [t |-> kind, keys |-> keys, vals |-> vals, of |-> of]]

\* `return result`: the caller gets the very object it passed
PassThrough(result) == Return("same", <<>>, <<>>, result)

\* {} and {name: array}
Dict(keys, vals) == Return("dict", keys, vals, NoneVal)

\* lines 597-598, had the formatter let an unknown task type through
UnknownTaskPassed(result, task) == PassThrough(result)

\* lines 597-598: raise ValueError(f'Unsupported task {task_type} ...')
UnknownTask(result, task) == Raise("ValueError", "unsupported_task")

\* line 596 with the last output name as the key
ClassificationKeyLast(names) == names.names[Len(names.names)]

\* line 596: output_names[0]
ClassificationKey(names) == names.names[1]

\* lines 581-598: the dispatch on the task type
format_dispatch(result, names, task) ==
    IF task \in {"feedforward"}
    THEN Dict(<<>>, <<>>)
    ELSE IF task \in {"text-generation", "batch-text-generation", "yolo_v7",
                      "text-translation", "speech-to-text"}
    THEN PassThrough(result)
    ELSE IF task \in {"named-entity-recognition"}
    THEN IF result.t = "tokens_labels"
         THEN Return("value", <<>>, <<>>, GetDecodeResult(result))
         ELSE Raise("TypeError", "unpack")
    ELSE IF task \in {"text-to-image"}
    THEN IF result.t = "pipeline_output"
         THEN Return("value", <<>>, <<>>, Images(result))
         ELSE Raise("AttributeError", "images")
    ELSE IF task \in {"classification"}
    THEN IF result.t = "tensor"
         THEN Dict(<<ClassificationKey(names)>>, <<DetachNumpy(result)>>)
         ELSE Raise("AttributeError", "detach")
    ELSE UnknownTask(result, task)

\* lines 578-579: output_names is None or empty
NamesMissing(names) == names.isNone \/ Len(names.names) = 0

\* prepare_output, had the feedforward branch come before the check of the names
prepare_output_dispatch_first(result, names, task) ==
    IF task \in {"feedforward"}
    THEN Dict(<<>>, <<>>)
    ELSE IF NamesMissing(names)
    THEN Raise("ValueError", "output_names")
    ELSE format_dispatch(result, names, task)

prepare_output(result, names, task) ==
    IF NamesMissing(names)
    THEN Raise("ValueError", "output_names")
    ELSE format_dispatch(result, names, task)

(***************************************************************************)
(* Helpers of the run.                                                     *)
(***************************************************************************)
NoInputs == [t |-> "None", len |-> 0]

NoIterResult == [exec_time |-> 0, iter_tokens |-> <<>>, audio_length |-> 0,
                 audio_sampling_rate |-> 0]

NoLoopResults == [time_infer |-> <<>>, num_tokens |-> <<>>, audios_lengths |-> <<>>,
                  audio_sampling_rate |-> 0]

\* the declared input names 1..n
InputNameLists == {[i \in 1..n |-> i] : n \in 1..MaxInputs}

\* the declared output names: None, [] and the lists of distinct names
OutputNameLists ==
    {NoNames} \cup
    {Names(q) : q \in UNION {{f \in [1..n -> 1..MaxNames] :
                                \A i, j \in 1..n : f[i] = f[j] => i = j} : n \in 0..MaxNames}}

\* n consecutive get_slice() calls appended to the log
RECURSIVE Slices(_, _)
Slices(ev, n) == IF n = 0 THEN ev ELSE Slices(Append(ev, "get_slice"), n - 1)

\* number of model invocations in the log
Calls(ev) == Cardinality({i \in DOMAIN ev : ev[i] = "model"})

\* number of get_slice calls in the log
SliceCalls(ev) == Cardinality({i \in DOMAIN ev : ev[i] = "get_slice"})

(***************************************************************************)
(* TensorFlowParameters (benchmark/frameworks/tensorflow/                  *)
(* tensorflow_parameters_parser.py).  A string is a sequence of one-       *)
(* character strings; None is a value of its own.                          *)
(***************************************************************************)
None == <<"None">>

Digits == {"0", "1", "2", "3", "4", "5", "6", "7", "8", "9"}

Whitespace == {" "}

RECURSIVE SplitFrom(_, _, _, _)
\* str.split() from position i on: cur is the token being read, out the tokens read
SplitFrom(str, i, cur, out) ==
    IF i > Len(str)
    THEN IF cur = <<>> THEN out ELSE Append(out, cur)
    ELSE IF str[i] \in Whitespace
    THEN SplitFrom(str, i + 1, <<>>, IF cur = <<>> THEN out ELSE Append(out, cur))
    ELSE SplitFrom(str, i + 1, Append(cur, str[i]), out)

\* str.split(): the maximal runs of characters that are not whitespace
split(str) == SplitFrom(str, 1, <<>>, <<>>)

\* FrameworkParameters._parameter_is_not_none
parameter_is_not_none(parameter) == parameter # None

\* FrameworkParameters._int_value_is_correct: every character is a digit
int_value_is_correct(int_value) == \A i \in DOMAIN int_value : int_value[i] \in Digits

\* FrameworkParameters._float_value_is_correct: digits, a point, digits
float_value_is_correct(float_value) ==
    \E k \in DOMAIN float_value :
        /\ float_value[k] = "."
        /\ k > 1 /\ k < Len(float_value)
        /\ \A i \in DOMAIN float_value : i # k => float_value[i] \in Digits

\* FrameworkParameters._mean_is_correct: 'list of 3 float elements'
mean_is_correct(mean) ==
    LET mean_check == split(mean)
    IN  Len(mean_check) = 3 /\ \A i \in DOMAIN mean_check : float_value_is_correct(mean_check[i])

\* FrameworkParameters._channel_swap_is_correct: 'list of unique values 0, 1, 2'
channel_swap_is_correct(channel_swap) ==
    LET set_in == split(channel_swap)
    IN  Len(set_in) = 3 /\ {set_in[i] : i \in DOMAIN set_in} = {<<"0">>, <<"1">>, <<"2">>}

\* lines 119-126: _input_shape_is_correct
input_shape_is_correct(input_shape) ==
    LET shape_check == split(input_shape)
    IN  IF Len(shape_check) # 3
        THEN FALSE
        ELSE \A i \in DOMAIN shape_check : int_value_is_correct(shape_check[i])

\* lines 75-117 in order: the argument, the field it is stored in, whether it
\* is validated, the message of the ValueError
InitSteps ==
    << [arg |-> "channel_swap", field |-> "channel_swap", checked |-> TRUE,
        msg |-> "Channel swap can only take values: list of unique values 0, 1, 2."],
       [arg |-> "mean", field |-> "mean", checked |-> TRUE,
        msg |-> "Mean can only take values: list of 3 float elements."],
       [arg |-> "input_scale", field |-> "input_scale", checked |-> TRUE,
        msg |-> "Input scale can only take values: float greater than zero."],
       [arg |-> "input_shape", field |-> "input_shape", checked |-> TRUE,
        msg |-> "Input shape can only take values: list of 3 integer elements greater than zero."],
       [arg |-> "input_name", field |-> "input_name", checked |-> FALSE, msg |-> ""],
       [arg |-> "output_names", field |-> "output_names", checked |-> FALSE, msg |-> ""],
       [arg |-> "thread_count", field |-> "nthreads", checked |-> TRUE,
        msg |-> "Threads count can only take integer value"],
       [arg |-> "inter_op_parallelism_threads", field |-> "num_inter_threads", checked |-> TRUE,
        msg |-> "Inter op parallelism threads can only take integer value"],
       [arg |-> "intra_op_parallelism_threads", field |-> "num_intra_threads", checked |-> TRUE,
        msg |-> "Intra op parallelism threads can only take integer value"],
       [arg |-> "kmp_affinity", field |-> "kmp_affinity", checked |-> FALSE, msg |-> ""],
       [arg |-> "use_xla", field |-> "use_xla", checked |-> FALSE, msg |-> ""] >>

\* the validator __init__ applies to the argument `arg`
IsCorrect(arg, value) ==
    CASE arg = "channel_swap" -> channel_swap_is_correct(value)
      [] arg = "mean" -> mean_is_correct(value)
      [] arg = "input_scale" -> float_value_is_correct(value)
      [] arg = "input_shape" -> input_shape_is_correct(value)
      [] arg \in {"thread_count", "inter_op_parallelism_threads",
                  "intra_op_parallelism_threads"} -> int_value_is_correct(value)
      [] OTHER -> TRUE

\* lines 63-73: every field is None
NoFields ==
    [channel_swap |-> None, mean |-> None, input_scale |-> None, input_shape |-> None,
     input_name |-> None, output_names |-> None, nthreads |-> None,
     num_inter_threads |-> None, num_intra_threads |-> None, kmp_affinity |-> None,
     use_xla |-> None]

\* TensorFlowParameters(None, ..., None)
NoArgs ==
    [channel_swap |-> None, mean |-> None, input_scale |-> None, input_shape |-> None,
     input_name |-> None, output_names |-> None, thread_count |-> None,
     inter_op_parallelism_threads |-> None, intra_op_parallelism_threads |-> None,
     kmp_affinity |-> None, use_xla |-> None]

\* one step of __init__, had it stored the value before validating it
StoreThenCheck(obj, step, value) ==
    IF ~parameter_is_not_none(value)
    THEN [fields |-> obj, exc |-> ""]
    ELSE [fields |-> [obj EXCEPT ![step.field] = value],
          exc |-> IF IsCorrect(step.arg, value) THEN "" ELSE step.msg]

\* one step of __init__ (for instance lines 75-79): a value that is not None is
\* stored when its validator accepts it, otherwise ValueError is raised
CheckThenStore(obj, step, value) ==
    IF ~parameter_is_not_none(value)
    THEN [fields |-> obj, exc |-> ""]
    ELSE IF IsCorrect(step.arg, value)
    THEN [fields |-> [obj EXCEPT ![step.field] = value], exc |-> ""]
    ELSE [fields |-> obj, exc |-> step.msg]

RECURSIVE InitFrom(_, _, _)
\* __init__ from step k on; the first ValueError ends it
InitFrom(obj, k, given) ==
    IF k > Len(InitSteps)
    THEN [fields |-> obj, exc |-> ""]
    ELSE LET done == CheckThenStore(obj, InitSteps[k], given[InitSteps[k].arg])
         IN  IF done.exc # "" THEN done ELSE InitFrom(done.fields, k + 1, given)

\* values of the variables of the construction when it is not what runs
IdleParameters ==
    /\ args = NoArgs
    /\ self = NoFields

\* variables of the construction of TensorFlowParameters
tfVars == <<args, self>>

\* variables of main around the run
mainVars == <<batch_size, metrics, raw_output, log>>

\* variables of the formatter, of the token counter and of main, untouched by a run
otherVars == <<output_names, display, generated_output, mainVars, tfVars>>

\* the aggregation has not been called
NoMetrics == [status |-> "none", exc |-> "", average_time |-> <<0, 1>>, fps |-> <<0, 1>>]

\* values of main's variables when main is not what runs
IdleMain ==
    /\ batch_size = 1
    /\ metrics = NoMetrics
    /\ raw_output = FALSE
    /\ log = <<>>

\* parameters of a run and of its stub model and data, never assigned after the call
params == <<task_type, num_iterations, test_duration, device, input_names, slice_cost,
            call_cost, gen_len, clip_len>>

\* locals of the loop and of one iteration
loopVars == <<iteration, time_start, res, input_kwarg_name, audio_length, exec_time,
              iter_result, loop_results>>

\* line 432 with the guard reversed: any count up to 1 is run single-shot
TakesSingleShotUpTo(n) == n <= 1

\* line 432: `if num_iterations == 1`
TakesSingleShot(n) == n = 1

\* lines 478-479 without the append
SingleShotSampleDropped(samples, t0, t1) == samples

\* lines 478-479: t1 = time(); time_infer.append(t1 - t0)
SingleShotSample(samples, t0, t1) == Append(samples, t1 - t0)

(***************************************************************************)
(* inference_pytorch: state on entry.                                      *)
(***************************************************************************)
Init ==
    /\ pc = "setup"
    /\ task_type \in AllTasks
    /\ num_iterations \in 0..MaxIter
    /\ test_duration \in 0..MaxDuration
    /\ device \in {"cpu", "cuda"}
    /\ input_names \in IF task_type \in {"classification", "feedforward", "yolo_v7"}
                      THEN InputNameLists ELSE {<<1>>}
    /\ slice_cost \in 0..MaxSliceCost
    /\ call_cost \in 1..MaxCallTime
    /\ gen_len \in IF task_type \in {"text-generation", "speech-to-text"}
                  THEN 0..MaxGen ELSE {0}
    /\ clip_len \in IF task_type \in {"speech-to-text"} THEN 1..MaxAudio ELSE {1}
    /\ now = 0
    /\ output = NoneVal
    /\ time_infer = <<>>
    /\ num_tokens = <<>>
    /\ audios_lengths = <<>>
    /\ audio_sampling_rate = 0
    /\ input_size = 0
    /\ iteration = 0
    /\ time_start = 0
    /\ encodings_dict = NoInputs
    /\ inputs = NoInputs
    /\ res = NoneVal
    /\ events = <<>>
    /\ raised = ""
    /\ input_kwarg_name = ""
    /\ audio_length = 0
    /\ exec_time = 0
    /\ iter_result = NoIterResult
    /\ loop_results = NoLoopResults
    /\ output_names = NoNames
    /\ display = Raise("", "not_called")
    /\ generated_output = GenGrid(0, 0)
    /\ IdleMain
    /\ IdleParameters

\* lines 407-430: tokenizer / processor and the first batch of the generative tasks
Setup ==
    /\ pc = "setup"
    /\ pc' = "dispatch"
    /\ IF task_type \in {"text-generation", "batch-text-generation"}
       THEN \E p \in 1..MaxPrompt :
              /\ events' = Slices(events, 1)
              /\ now' = now + slice_cost
              /\ encodings_dict' = [t |-> "encodings", len |-> p]
              /\ input_size' = IF task_type \in {"text-generation"} THEN p ELSE input_size
              /\ num_tokens' = IF task_type \in {"batch-text-generation"}
                               THEN Append(num_tokens, MAX_TEXT_LEN) ELSE num_tokens
              /\ UNCHANGED <<audios_lengths, audio_sampling_rate>>
       ELSE IF task_type \in {"speech-to-text"}
       THEN   /\ events' = Slices(events, 1)
              /\ now' = now + slice_cost
              /\ audios_lengths' = Append(audios_lengths, clip_len)
              /\ encodings_dict' = [t |-> "features", len |-> 0]
              /\ audio_sampling_rate' = SAMPLING_RATE
              /\ UNCHANGED <<input_size, num_tokens>>
       ELSE UNCHANGED <<events, now, encodings_dict, input_size, num_tokens, audios_lengths,
                        audio_sampling_rate>>
    /\ UNCHANGED <<params, output, time_infer, inputs, raised, loopVars, otherVars>>

\* lines 432-434: the single-shot branch builds the tensor inputs before t0
SingleShotBuild ==
    /\ pc = "dispatch"
    /\ TakesSingleShot(num_iterations)
    /\ pc' = "single"
    /\ IF task_type \in {"classification", "feedforward", "yolo_v7"}
       THEN /\ events' = Slices(events, Len(input_names))
            /\ now' = now + slice_cost * Len(input_names)
            /\ inputs' = [t |-> "tensor_list", len |-> Len(input_names)]
       ELSE UNCHANGED <<events, now, inputs>>
    /\ UNCHANGED <<params, output, time_infer, num_tokens, audios_lengths,
                   audio_sampling_rate, input_size, encodings_dict, raised, loopVars,
                   otherVars>>

\* lines 436-479 and 490: t0, the dispatch on the task type, t1, the sample, return
SingleShotInfer ==
    /\ pc = "single"
    /\ pc' = "done"
    /\ LET k == Calls(events) + 1
           ret == ModelReturn(task_type, k)
       IN  IF task_type \in {"classification", "feedforward"}
           THEN   /\ output' = SoftmaxCpu(ret)
                  /\ events' = Append(events, "model")
                  /\ now' = now + call_cost
                  /\ time_infer' = SingleShotSample(time_infer, now, now')
                  /\ UNCHANGED num_tokens
           ELSE IF task_type \in {"text-to-image"}
           THEN   /\ output' = ret
                  /\ events' = Append(Slices(events, 1), "model")
                  /\ now' = now + slice_cost + call_cost
                  /\ time_infer' = SingleShotSample(time_infer, now, now')
                  /\ UNCHANGED num_tokens
           ELSE IF task_type \in {"yolo_v7"}
           THEN   /\ output' = FirstCpu(ret)
                  /\ events' = Append(events, "model")
                  /\ now' = now + call_cost
                  /\ time_infer' = SingleShotSample(time_infer, now, now')
                  /\ UNCHANGED num_tokens
           ELSE IF task_type \in {"text-translation"}
           THEN   /\ output' = ret
                  /\ events' = Append(Slices(events, 1), "model")
                  /\ now' = now + slice_cost + call_cost
                  /\ time_infer' = SingleShotSample(time_infer, now, now')
                  /\ UNCHANGED num_tokens
           ELSE IF task_type \in {"named-entity-recognition"}
           THEN \E p \in 1..MaxPrompt :
                  /\ output' = DecodeNer(ret)
                  /\ events' = Append(Slices(events, 1), "model")
                  /\ now' = now + slice_cost + call_cost
                  /\ time_infer' = SingleShotSample(time_infer, now, now')
                  /\ num_tokens' = Append(num_tokens, p)
           ELSE IF task_type \in {"text-generation"}
           THEN   LET grid == GenGrid(k, encodings_dict.len + gen_len)
                  IN  /\ output' = DecodeText(grid)
                      /\ events' = Append(events, "model")
                      /\ now' = now + call_cost
                      /\ time_infer' = SingleShotSample(time_infer, now, now')
                      /\ num_tokens' = num_tokens \o
                             get_meaning_tokens_from_batch(grid, input_size, DOT_TOKEN)
           ELSE IF task_type \in {"batch-text-generation"}
           THEN   /\ output' = DecodeText(ret)
                  /\ events' = Append(events, "model")
                  /\ now' = now + call_cost
                  /\ time_infer' = SingleShotSample(time_infer, now, now')
                  /\ UNCHANGED num_tokens
           ELSE IF task_type \in {"speech-to-text"}
           THEN   LET grid == GenGrid(k, gen_len)
                  IN  /\ output' = DecodeText(grid)
                      /\ events' = Append(events, "model")
                      /\ now' = now + call_cost
                      /\ time_infer' = SingleShotSample(time_infer, now, now')
                      /\ num_tokens' = num_tokens \o
                             get_meaning_tokens_from_batch(grid, input_size, DOT_TOKEN)
           ELSE /\ time_infer' = SingleShotSample(time_infer, now, now)
                /\ UNCHANGED <<output, events, now, num_tokens>>
    /\ UNCHANGED <<params, inputs, encodings_dict, audios_lengths, audio_sampling_rate,
                   input_size, raised, loopVars, otherVars>>

\* results of the run that the loop does not touch until it returns
runResults == <<output, time_infer, num_tokens, audios_lengths, audio_sampling_rate>>

\* loop_inference(num_iterations, test_duration)(inference_iteration)(...) is entered:
\* the wrapper notes the start time and starts with empty accumulators
LoopStart ==
    /\ pc = "dispatch"
    /\ ~TakesSingleShot(num_iterations)
    /\ pc' = "iter_prepare"
    /\ time_start' = now
    /\ iteration' = 0
    /\ loop_results' = NoLoopResults
    /\ UNCHANGED <<params, now, runResults, input_size, encodings_dict, inputs, res,
                   events, raised, input_kwarg_name, audio_length, exec_time,
                   iter_result, otherVars>>

\* torch.cuda.synchronize() when the device is an accelerator
Synchronize(ev) == IF device = "cuda" THEN Append(ev, "synchronize") ELSE ev

\* inference_iteration, lines 516-559: inputs and call shape by task type, then
\* the synchronization before the timed call
IterationPrepare ==
    /\ pc = "iter_prepare"
    /\ iteration < MaxLoop
    /\ pc' = "iter_infer"
    /\ IF task_type \in {"text-generation", "batch-text-generation"}
       THEN \E p \in 1..MaxPrompt :
              /\ inputs' = [t |-> "encodings", len |-> p]
              /\ input_kwarg_name' = IF task_type \in {"text-generation"}
                                     THEN "inputs" ELSE "encodings_dict"
              /\ events' = Synchronize(Slices(events, 1))
              /\ now' = now + slice_cost
              /\ audio_length' = 0
       ELSE IF task_type \in {"classification", "feedforward"}
       THEN /\ inputs' = [t |-> "tensor_list", len |-> Len(input_names)]
            /\ input_kwarg_name' = ""
            /\ events' = Synchronize(Slices(events, Len(input_names)))
            /\ now' = now + slice_cost * Len(input_names)
            /\ audio_length' = 0
       ELSE IF task_type \in {"named-entity-recognition"}
       THEN \E p \in 1..MaxPrompt :
              /\ inputs' = [t |-> "input_ids", len |-> p]
              /\ input_kwarg_name' = "input_ids"
              /\ events' = Synchronize(Slices(events, 1))
              /\ now' = now + slice_cost
              /\ audio_length' = 0
       ELSE IF task_type \in {"speech-to-text"}
       THEN   /\ inputs' = [t |-> "features", len |-> 0]
              /\ input_kwarg_name' = "inputs"
              /\ events' = Synchronize(Slices(events, 1))
              /\ now' = now + slice_cost
              /\ audio_length' = clip_len
       ELSE IF task_type \in {"text-to-image", "text-translation"}
       THEN /\ inputs' = [t |-> "batch", len |-> 0]
            /\ input_kwarg_name' = IF task_type \in {"text-to-image"} THEN "prompt" ELSE "txt"
            /\ events' = Synchronize(Slices(events, 1))
            /\ now' = now + slice_cost
            /\ audio_length' = 0
       ELSE /\ inputs' = NoInputs
            /\ input_kwarg_name' = ""
            /\ events' = Synchronize(events)
            /\ audio_length' = 0
            /\ UNCHANGED now
    /\ UNCHANGED <<params, runResults, input_size, encodings_dict, iteration, time_start,
                   res, raised, exec_time, iter_result, loop_results, otherVars>>

\* infer_slice under get_exec_time, lines 493-511: the call by keyword or by
\* positional unpacking, the synchronization after it, the measured latency.
\* Unpacking inputs that are None raises TypeError before the model is called.
IterationInfer ==
    /\ pc = "iter_infer"
    /\ IF input_kwarg_name = "" /\ inputs.t = "None"
       THEN /\ pc' = "failed"
            /\ raised' = "TypeError"
            /\ UNCHANGED <<now, events, res, exec_time>>
       ELSE   LET k == Calls(events) + 1
              IN  /\ pc' = "iter_decode"
                  /\ res' = IF task_type \in {"text-generation"}
                            THEN GenGrid(k, inputs.len + gen_len)
                            ELSE IF task_type \in {"speech-to-text"}
                            THEN GenGrid(k, gen_len)
                            ELSE ModelReturn(task_type, k)
                  /\ events' = Synchronize(Append(events, "model"))
                  /\ now' = now + call_cost
                  /\ exec_time' = now' - now
                  /\ UNCHANGED raised
    /\ UNCHANGED <<params, runResults, input_size, encodings_dict, inputs, iteration,
                   time_start, input_kwarg_name, audio_length, iter_result,
                   loop_results, otherVars>>

\* inference_iteration, lines 563-574: the token counts and the returned dict,
\* which does not carry res
IterationDecode ==
    /\ pc = "iter_decode"
    /\ pc' = "iter_record"
    /\ iter_result' =
         [exec_time |-> exec_time,
          iter_tokens |-> IF task_type \in {"text-generation", "speech-to-text"}
                          THEN get_meaning_tokens_from_batch(res, input_size, DOT_TOKEN)
                          ELSE IF task_type \in {"named-entity-recognition"}
                          THEN <<inputs.len>>
                          ELSE <<>>,
          audio_length |-> audio_length,
          audio_sampling_rate |-> IF task_type \in {"speech-to-text"}
                                  THEN SAMPLING_RATE ELSE 0]
    /\ UNCHANGED <<params, now, runResults, input_size, encodings_dict, inputs, res,
                   events, raised, iteration, time_start, input_kwarg_name,
                   audio_length, exec_time, loop_results, otherVars>>

\* an exception inside an iteration, had a handler caught it and let the loop go on
AfterExceptionRetried(position) == "iter_prepare"

\* where the run is after an exception was raised at `position`: neither
\* inference_iteration nor inference_pytorch has a handler, so it leaves the run
AfterException(position) == "failed"

\* get_slice, tokenize, the model, or a decode step raises inside an iteration of
\* the loop (lines 523-571)
IterationRaises ==
    /\ pc \in {"iter_prepare", "iter_infer", "iter_decode"}
    /\ pc' = AfterException(pc)
    /\ raised' = "RuntimeError"
    /\ UNCHANGED <<params, now, runResults, input_size, encodings_dict, inputs, res,
                   events, loopVars, otherVars>>

\* get_slice, the model, or a decode step raises in the single-shot branch
\* (lines 436-476), before the sample is appended
SingleShotRaises ==
    /\ pc = "single"
    /\ pc' = "failed"
    /\ raised' = "RuntimeError"
    /\ UNCHANGED <<params, now, runResults, input_size, encodings_dict, inputs, res,
                   events, loopVars, otherVars>>

\* the loop, had it looked at the count only
StopLoopCountOnly(done, count, duration, started, clock) == count > 0 /\ done >= count

\* the loop, had it stopped only after the deadline was strictly exceeded
StopLoopStrict(done, count, duration, started, clock) ==
    \/ (count > 0 /\ done >= count)
    \/ (duration > 0 /\ clock > started + duration)

\* the loop stops when the count is reached or the deadline has passed;
\* a count of 0 and a duration of 0 bound nothing
StopLoop(done, count, duration, started, clock) ==
    \/ (count > 0 /\ done >= count)
    \/ (duration > 0 /\ clock >= started + duration)

\* the wrapper of loop_inference appends the sample of the iteration that just
\* ended and then decides whether another one starts
LoopRecord ==
    /\ pc = "iter_record"
    /\ iteration < MaxLoop
    /\ iteration' = iteration + 1
    /\ loop_results' =
         [time_infer |-> Append(loop_results.time_infer, iter_result.exec_time),
          num_tokens |-> loop_results.num_tokens \o iter_result.iter_tokens,
          audios_lengths |-> IF iter_result.audio_length # 0
                             THEN Append(loop_results.audios_lengths, iter_result.audio_length)
                             ELSE loop_results.audios_lengths,
          audio_sampling_rate |-> iter_result.audio_sampling_rate]
    /\ pc' = IF StopLoop(iteration', num_iterations, test_duration, time_start, now)
             THEN "loop_return" ELSE "iter_prepare"
    /\ UNCHANGED <<params, now, runResults, input_size, encodings_dict, inputs, res,
                   events, raised, time_start, input_kwarg_name, audio_length,
                   exec_time, iter_result, otherVars>>

\* the loop branch, had it kept what the last iteration returned
LoopOutputLast(out, last) == [t |-> last.t, call |-> last.call, dev |-> "device", fn |-> "raw"]

\* what inference_pytorch returns as `output` after the loop: the local set at
\* line 396, which the loop branch never assigns
LoopOutput(out, last) == out

\* an iteration past the tracked ones: it runs like any other, its calls and its
\* sample are not added to the log and to the accumulated sequences
IterationUntracked ==
    /\ pc = "iter_prepare"
    /\ iteration >= MaxLoop
    /\ pc' = "iter_untracked"
    /\ UNCHANGED <<params, now, runResults, input_size, encodings_dict, inputs, res,
                   events, raised, loopVars, otherVars>>

\* the stop condition after an iteration past the tracked ones
LoopUntracked ==
    /\ pc = "iter_untracked"
    /\ pc' = IF StopLoop(iteration, num_iterations, test_duration, time_start, now)
             THEN "loop_return" ELSE "iter_prepare"
    /\ UNCHANGED <<params, now, runResults, input_size, encodings_dict, inputs, res,
                   events, raised, loopVars, otherVars>>

\* line 486 left out: the local list stays as it was
ReturnedTimesLocal(local, looped) == local

\* line 486: time_infer = loop_results['time_infer']
ReturnedTimes(local, looped) == looped

\* lines 486-490: the accumulated sequences replace the locals and the run returns
LoopReturn ==
    /\ pc = "loop_return"
    /\ pc' = "done"
    /\ time_infer' = ReturnedTimes(time_infer, loop_results.time_infer)
    /\ num_tokens' = loop_results.num_tokens
    /\ audios_lengths' = loop_results.audios_lengths
    /\ audio_sampling_rate' = loop_results.audio_sampling_rate
    /\ output' = LoopOutput(output, res)
    /\ UNCHANGED <<params, now, input_size, encodings_dict, inputs, res, events, raised,
                   loopVars, otherVars>>

Next ==
    \/ Setup
    \/ SingleShotBuild
    \/ SingleShotInfer
    \/ LoopStart
    \/ IterationPrepare
    \/ IterationInfer
    \/ IterationDecode
    \/ LoopRecord
    \/ LoopReturn
    \/ IterationRaises
    \/ SingleShotRaises
    \/ IterationUntracked
    \/ LoopUntracked

Spec == Init /\ [][Next]_vars

\* the runs on a cpu whose data source answers at once
InitLive ==
    /\ Init
    /\ device = "cpu"
    /\ slice_cost = 0

\* the run is one thread: whenever a step is possible, one is taken
SpecLive == InitLive /\ [][Next]_vars /\ WF_vars(Next)

(***************************************************************************)
(* prepare_output on its own: every task type, result and name list.       *)
(***************************************************************************)
\* the values a caller can hand to prepare_output as `result`
RawResults ==
    {NoneVal,
     SoftmaxCpu(ModelReturn("classification", 1)),
     ModelReturn("text-to-image", 1),
     FirstCpu(ModelReturn("yolo_v7", 1)),
     ModelReturn("text-translation", 1),
     DecodeNer(ModelReturn("named-entity-recognition", 1)),
     DecodeText(ModelReturn("batch-text-generation", 1))}

\* values of the variables an operation on its own does not use
IdleRun ==
    /\ num_iterations = 1
    /\ test_duration = 0
    /\ device = "cpu"
    /\ input_names = <<1>>
    /\ slice_cost = 0
    /\ call_cost = 1
    /\ gen_len = 0
    /\ clip_len = 1
    /\ now = 0
    /\ audios_lengths = <<>>
    /\ audio_sampling_rate = 0
    /\ iteration = 0
    /\ time_start = 0
    /\ encodings_dict = NoInputs
    /\ inputs = NoInputs
    /\ res = NoneVal
    /\ events = <<>>
    /\ raised = ""
    /\ input_kwarg_name = ""
    /\ audio_length = 0
    /\ exec_time = 0
    /\ iter_result = NoIterResult
    /\ loop_results = NoLoopResults

InitFormat ==
    /\ IdleMain
    /\ IdleParameters
    /\ time_infer = <<>>
    /\ IdleRun
    /\ pc = "format"
    /\ task_type \in AllTasks
    /\ output \in RawResults
    /\ output_names \in OutputNameLists
    /\ display = Raise("", "not_called")
    /\ num_tokens = <<>>
    /\ input_size = 0
    /\ generated_output = GenGrid(0, 0)

\* prepare_output(result, output_names, task_type) is called
Format ==
    /\ pc = "format"
    /\ pc' = "formatted"
    /\ display' = prepare_output(output, output_names, task_type)
    /\ UNCHANGED <<params, now, runResults, input_size, encodings_dict, inputs, raised,
                   events, loopVars, output_names, generated_output, tfVars, mainVars>>

NextFormat == Format

SpecFormat == InitFormat /\ [][NextFormat]_vars

(***************************************************************************)
(* get_meaning_tokens_from_batch on its own.                               *)
(***************************************************************************)
\* token ids of the grids: the filler and one other
TokenAlphabet == {DOT_TOKEN, 5}

\* rows of width w
Rows(w) == [1..w -> TokenAlphabet]

\* grids of b rows of one width
TokenGrids ==
    {[t |-> "grid", call |-> 0, rows |-> r] :
        r \in UNION {[1..b -> Rows(w)] : b \in 1..MaxBatch, w \in 1..MaxWidth}}

\* the grid [[5,7,2,2,2],[5,7,9,2,2]]
ExampleGrid == [t |-> "grid", call |-> 0, rows |-> << <<5, 7, 2, 2, 2>>, <<5, 7, 9, 2, 2>> >>]

InitTokens ==
    /\ IdleRun
    /\ IdleMain
    /\ IdleParameters
    /\ time_infer = <<>>
    /\ pc = "count"
    /\ task_type = "text-generation"
    /\ output = NoneVal
    /\ output_names = NoNames
    /\ display = Raise("", "not_called")
    /\ num_tokens = <<>>
    /\ input_size \in 0..MaxPrompt
    /\ generated_output \in TokenGrids \cup {ExampleGrid}

\* get_meaning_tokens_from_batch(generated_output, input_size, dot_token=2) is called
CountTokens ==
    /\ pc = "count"
    /\ pc' = "counted"
    /\ num_tokens' = get_meaning_tokens_from_batch(generated_output, input_size, DOT_TOKEN)
    /\ UNCHANGED <<params, now, output, time_infer, audios_lengths, audio_sampling_rate,
                   input_size, encodings_dict, inputs, raised, events, loopVars, otherVars>>

NextTokens == CountTokens

SpecTokens == InitTokens /\ [][NextTokens]_vars

(***************************************************************************)
(* The aggregation of the samples on its own.  The aggregator              *)
(* (postprocessing_data.calculate_performance_metrics_sync_mode) is called *)
(* at lines 710-713; rates are kept as <<numerator, denominator>>.         *)
(***************************************************************************)
RECURSIVE SumSeq(_)
SumSeq(q) == IF q = <<>> THEN 0 ELSE q[1] + SumSeq(Tail(q))

\* sequences over S of length at most n
SeqsUpTo(S, n) == UNION {[1..k -> S] : k \in 0..n}

InsufficientData == [status |-> "raise", exc |-> "InsufficientData",
                     average_time |-> <<0, 1>>, fps |-> <<0, 1>>]

\* the aggregator, had it rejected only the empty sequence
aggregate_unless_empty(batch, latencies) ==
    IF Len(latencies) = 0
    THEN InsufficientData
    ELSE [status |-> "return", exc |-> "",
          average_time |-> <<SumSeq(latencies), Len(latencies)>>,
          fps |-> <<batch * Len(latencies), SumSeq(latencies)>>]

\* aggregate(batchSize, latencies, ...): the latency family of metrics, the mean
\* latency and batchSize over it; an empty sequence or a zero total fails
aggregate(batch, latencies) ==
    IF Len(latencies) = 0 \/ SumSeq(latencies) = 0
    THEN InsufficientData
    ELSE [status |-> "return", exc |-> "",
          average_time |-> <<SumSeq(latencies), Len(latencies)>>,
          fps |-> <<batch * Len(latencies), SumSeq(latencies)>>]

InitAggregate ==
    /\ IdleRun
    /\ IdleParameters
    /\ pc = "aggregate"
    /\ task_type = "classification"
    /\ output = NoneVal
    /\ output_names = NoNames
    /\ display = Raise("", "not_called")
    /\ num_tokens = <<>>
    /\ input_size = 0
    /\ generated_output = GenGrid(0, 0)
    /\ batch_size \in 1..MaxBatch
    /\ time_infer \in SeqsUpTo(0..MaxCallTime, MaxIter)
    /\ metrics = NoMetrics
    /\ raw_output = FALSE
    /\ log = <<>>

\* the latencies and the batch size are handed to the aggregator
Aggregate ==
    /\ pc = "aggregate"
    /\ pc' = "aggregated"
    /\ metrics' = aggregate(batch_size, time_infer)
    /\ UNCHANGED <<params, now, runResults, input_size, encodings_dict, inputs, raised,
                   events, loopVars, output_names, display, generated_output, tfVars,
                   batch_size, raw_output, log>>

NextAggregate == Aggregate

SpecAggregate == InitAggregate /\ [][NextAggregate]_vars

(***************************************************************************)
(* The construction of TensorFlowParameters on its own.                    *)
(***************************************************************************)
\* the strings tried for the shape: digits, blanks and a letter
ShapeStrings == UNION {[1..n -> {"1", " ", "x"}] : n \in 1..MaxShapeLen}

\* an argument that is left out or given
Optional(values) == {None} \cup values

\* calls in which any argument may be left out, right or wrong
MixedArgs ==
    [channel_swap : Optional({<<"2", " ", "1", " ", "0">>, <<"0", " ", "0", " ", "1">>}),
     mean : Optional({<<"1", ".", "5", " ", "2", ".", "5", " ", "3", ".", "5">>,
                      <<"1", ".", "5">>}),
     input_scale : Optional({<<"0", ".", "5">>, <<"-", "1">>}),
     input_shape : Optional({<<"1", " ", "1", " ", "1">>, <<"1", " ", "1">>}),
     input_name : Optional({<<"v">>}),
     output_names : Optional({<<"v">>}),
     thread_count : Optional({<<"4">>, <<"-", "1">>}),
     inter_op_parallelism_threads : Optional({<<"4">>, <<"-", "1">>}),
     intra_op_parallelism_threads : Optional({<<"4">>, <<"-", "1">>}),
     kmp_affinity : Optional({<<"v">>}),
     use_xla : Optional({<<"v">>})]

\* calls that give the shape only, every string of the bound
ShapeArgs == {[NoArgs EXCEPT !.input_shape = str] : str \in ShapeStrings}

InitParameters ==
    /\ IdleRun
    /\ IdleMain
    /\ pc = "construct"
    /\ task_type = "classification"
    /\ output = NoneVal
    /\ output_names = NoNames
    /\ display = Raise("", "not_called")
    /\ time_infer = <<>>
    /\ num_tokens = <<>>
    /\ input_size = 0
    /\ generated_output = GenGrid(0, 0)
    /\ args \in MixedArgs \cup ShapeArgs
    /\ self = NoFields

\* TensorFlowParameters(...) is called, lines 61-117; `raised` gets the message
\* of the ValueError
Construct ==
    /\ pc = "construct"
    /\ LET done == InitFrom(NoFields, 1, args)
       IN  /\ self' = done.fields
           /\ raised' = done.exc
           /\ pc' = IF done.exc = "" THEN "constructed" ELSE "rejected"
    /\ UNCHANGED <<params, now, runResults, input_size, encodings_dict, inputs, events,
                   loopVars, output_names, display, generated_output, mainVars, args>>

NextParameters == Construct

SpecParameters == InitParameters /\ [][NextParameters]_vars

(***************************************************************************)
(* main around the run (lines 698-731): the run, the metrics and the       *)
(* report, the display of the result, the exit status.                     *)
(***************************************************************************)
InitMain ==
    /\ Init
    /\ num_iterations \in 1..2
    /\ test_duration = 0
    /\ device = "cpu"
    /\ slice_cost = 0
    /\ call_cost = 1

\* lines 698-699: the command line is parsed, main is about to call inference_pytorch
MainParse ==
    /\ pc = "setup"
    /\ events = <<>>
    /\ log = <<>>
    /\ \E names \in OutputNameLists, raw \in BOOLEAN, b \in 1..MaxBatch :
          /\ output_names' = names
          /\ raw_output' = raw
          /\ batch_size' = b
    /\ log' = <<"info">>
    /\ UNCHANGED <<pc, params, now, runResults, input_size, encodings_dict, inputs, res,
                   events, raised, loopVars, display, generated_output, tfVars, metrics>>

\* lines 709-717: the metrics are computed from what the run returned and the
\* report is written; an exception of the aggregation reaches the outer handler
MainMetrics ==
    /\ pc = "done"
    /\ log # <<>>
    /\ metrics' = aggregate(batch_size, time_infer)
    /\ IF metrics'.status = "raise"
       THEN /\ pc' = "exit_1"
            /\ raised' = metrics'.exc
            /\ log' = Append(log, "error")
       ELSE /\ pc' = "reported"
            /\ log' = Append(log, "info")
            /\ UNCHANGED raised
    /\ UNCHANGED <<params, now, runResults, input_size, encodings_dict, inputs, res,
                   events, loopVars, output_names, display, generated_output, tfVars,
                   batch_size, raw_output>>

\* lines 719-728: prepare_output is called only when raw_output is off and the
\* run was single-shot; what it raises is logged as a warning and dropped
MainOutput ==
    /\ pc = "reported"
    /\ pc' = "exit_0"
    /\ IF ~raw_output /\ num_iterations = 1
       THEN /\ display' = prepare_output(output, output_names, task_type)
            /\ log' = Append(log, IF display'.status = "raise" THEN "warning" ELSE "info")
       ELSE UNCHANGED <<display, log>>
    /\ UNCHANGED <<params, now, runResults, input_size, encodings_dict, inputs, res,
                   events, raised, loopVars, output_names, generated_output, tfVars,
                   batch_size, metrics, raw_output>>

\* lines 729-731: an exception of the run is logged and main exits with status 1
MainFailed ==
    /\ pc = "failed"
    /\ log # <<>>
    /\ pc' = "exit_1"
    /\ log' = Append(log, "error")
    /\ UNCHANGED <<params, now, runResults, input_size, encodings_dict, inputs, res,
                   events, raised, loopVars, output_names, display, generated_output, tfVars,
                   batch_size, metrics, raw_output>>

NextMain ==
    \/ MainParse
    \/ (log # <<>> /\ Next)
    \/ MainMetrics
    \/ MainOutput
    \/ MainFailed

SpecMain == InitMain /\ [][NextMain]_vars

(***************************************************************************)
(* Properties of the run (specification Spec).                             *)
(***************************************************************************)
LoopPositions == {"iter_prepare", "iter_infer", "iter_decode", "iter_record",
                  "iter_untracked", "loop_return"}

\* C1: a run with iteration count exactly 1 goes through the single-shot
\* branch only: it never is at a position of the loop, the loop accumulates
\* nothing, and when it returns the model has been invoked exactly once (for
\* every supported task type) and there is exactly one latency sample.  A run
\* with any other count never is at the single-shot position, and when it
\* returns its samples are the ones the loop accumulated.
C1_SingleShotPath ==
    /\ num_iterations = 1 =>
         /\ pc \notin LoopPositions
         /\ iteration = 0
         /\ loop_results = NoLoopResults
         /\ (pc = "done" /\ task_type \in SupportedTasks) =>
               (Calls(events) = 1 /\ Len(time_infer) = 1)
    /\ num_iterations # 1 =>
         /\ pc # "single"
         /\ pc = "done" => (iteration >= 1 /\ time_infer = loop_results.time_infer)

C1_Witness ==
    /\ pc = "done"
    /\ num_iterations = 1
    /\ task_type = "text-translation"
    /\ Calls(events) = 1
    /\ Len(time_infer) = 1

\* C2: on the looped path no iteration starts once the configured count is
\* reached or the deadline has passed, the loop is left only when one of the
\* two holds, and a run with count N > 1 and duration 0 returns exactly N
\* samples; a count N > 1 never yields more than N samples.
C2_LoopBounds ==
    /\ (pc = "iter_prepare" /\ iteration >= 1) =>
         /\ (num_iterations = 0 \/ iteration < num_iterations)
         /\ (test_duration = 0 \/ now < time_start + test_duration)
    /\ pc = "loop_return" =>
         \/ (num_iterations > 0 /\ iteration = num_iterations)
         \/ (test_duration > 0 /\ now >= time_start + test_duration)
    /\ (pc = "done" /\ num_iterations > 1) => Len(time_infer) <= num_iterations
    /\ (pc = "done" /\ num_iterations > 1 /\ test_duration = 0) =>
         Len(time_infer) = num_iterations

C2_Witness ==
    /\ pc = "done"
    /\ num_iterations = MaxIter
    /\ test_duration = 0
    /\ Len(time_infer) = MaxIter

\* C3: every run that has returned holds at least one latency sample.
C3_AtLeastOneSample == pc = "done" => Len(time_infer) >= 1

\* a looped run whose deadline had passed before its first model call began
C3_Witness ==
    /\ pc = "done"
    /\ num_iterations # 1
    /\ test_duration > 0
    /\ Len(time_infer) = 1
    /\ now - time_infer[1] >= time_start + test_duration

\* all samples of the run are calls of exactly d time units
AllCallsTook(d) == \A i \in DOMAIN time_infer : time_infer[i] = d

\* C4: the deadline is looked at between iterations only.  A model call that
\* was made has its sample recorded whatever the clock says afterwards, no
\* iteration is prepared after the deadline was found passed, and with a
\* duration of 1 s (2 units), calls of 0.5 s (1 unit), an instant get_slice
\* and a count that allows 3 or more iterations the run returns 2 samples.
C4_DeadlineBetweenIterations ==
    /\ pc = "iter_record" => Len(loop_results.time_infer) + 1 = Calls(events)
    /\ (pc \in {"loop_return", "done"} /\ num_iterations # 1) =>
         Len(loop_results.time_infer) = Calls(events)
    /\ (pc = "done" /\ num_iterations # 1) => Len(time_infer) = Calls(events)
    /\ (pc = "iter_prepare" /\ iteration >= 1 /\ test_duration > 0) =>
         now < time_start + test_duration
    /\ (pc = "done" /\ (num_iterations = 0 \/ num_iterations >= 3) /\ test_duration = 2
          /\ slice_cost = 0 /\ AllCallsTook(1)) =>
         Len(time_infer) = 2

\* a second iteration that began before the deadline and ended after it
C4_Witness ==
    /\ pc = "done"
    /\ num_iterations >= 3
    /\ test_duration > 0
    /\ Len(time_infer) = 2
    /\ now - time_infer[2] < time_start + test_duration
    /\ now > time_start + test_duration

\* the kind of value the single-shot branch leaves in `output`, by task type
SingleShotKind(task) ==
    CASE task \in {"classification", "feedforward", "yolo_v7"} -> "tensor"
      [] task = "text-to-image" -> "pipeline_output"
      [] task = "text-translation" -> "translated_batch"
      [] task = "named-entity-recognition" -> "tokens_labels"
      [] OTHER -> "text"

C6_UnsupportedTaskFails ==
    task_type \notin SupportedTasks =>
        /\ pc # "done"
        /\ Calls(events) = 0
        /\ time_infer = <<>>
        /\ raised \in {"", "UnsupportedTask"}

(***************************************************************************)
(* Properties of prepare_output (specification SpecFormat).                *)
(***************************************************************************)
\* C7: with output names None or empty, prepare_output raises the ValueError
\* about the output names for every task type and every result, and returns
\* nothing.
C7_EmptyNamesRejected ==
    (pc = "formatted" /\ (output_names.isNone \/ Len(output_names.names) = 0)) =>
        /\ display.status = "raise"
        /\ display.exc = "ValueError"
        /\ display.why = "output_names"

C7_Witness ==
    /\ pc = "formatted"
    /\ output_names = Names(<<>>)
    /\ task_type = "feedforward"
    /\ display.status = "raise"

\* C8: with at least one output name and a task type outside the supported
\* set, prepare_output raises the ValueError naming the unsupported task.
C8_UnsupportedTaskRejected ==
    (pc = "formatted" /\ ~output_names.isNone /\ Len(output_names.names) > 0
       /\ task_type \notin SupportedTasks) =>
        /\ display.status = "raise"
        /\ display.exc = "ValueError"
        /\ display.why = "unsupported_task"

C8_Witness ==
    /\ pc = "formatted"
    /\ output_names = Names(<<1>>)
    /\ task_type \in UnsupportedTasks
    /\ display.why = "unsupported_task"

\* C9: with at least one output name, prepare_output returns {} for
\* feedforward whatever the result; the result itself for text-generation,
\* batch-text-generation, yolo_v7, text-translation and speech-to-text; the
\* images of a result that has them for text-to-image; a dict whose only key
\* is the first output name for classification of a tensor; and no supported
\* task type ends in the unsupported-task branch.
C9_FormatTable ==
    (pc = "formatted" /\ ~output_names.isNone /\ Len(output_names.names) > 0) =>
        /\ task_type = "feedforward" =>
             (display.status = "return" /\ display.value.t = "dict"
                /\ display.value.keys = <<>>)
        /\ task_type \in {"text-generation", "batch-text-generation", "yolo_v7",
                          "text-translation", "speech-to-text"} =>
             (display.status = "return" /\ display.value.t = "same"
                /\ display.value.of = output)
        /\ (task_type = "text-to-image" /\ output.t = "pipeline_output") =>
             (display.status = "return" /\ display.value.of.t = "images"
                /\ display.value.of.call = output.call)
        /\ (task_type = "classification" /\ output.t = "tensor") =>
             (display.status = "return" /\ display.value.t = "dict"
                /\ display.value.keys = <<Head(output_names.names)>>
                /\ Len(display.value.vals) = 1
                /\ display.value.vals[1].t = "ndarray")
        /\ (task_type = "named-entity-recognition" /\ output.t = "tokens_labels") =>
             (display.status = "return" /\ display.value.of.t = "decoded_entities")
        /\ task_type \in SupportedTasks => display.why # "unsupported_task"

C9_Witness ==
    /\ pc = "formatted"
    /\ task_type = "classification"
    /\ output.t = "tensor"
    /\ Len(output_names.names) = 2
    /\ display.value.keys = <<Head(output_names.names)>>

(***************************************************************************)
(* Properties of get_meaning_tokens_from_batch (specification SpecTokens). *)
(***************************************************************************)
\* the row is k tokens other than the filler followed by the filler only
PaddedAfter(row, k) ==
    \A j \in DOMAIN row : (j <= k => row[j] # DOT_TOKEN) /\ (j > k => row[j] = DOT_TOKEN)

\* C10: the counter returns one integer per row, in row order; for a row of k
\* non-filler tokens followed by filler only (k may be the whole width, the
\* batch may be a single row) the integer is (1 + k) - input_size; the grid
\* [[5,7,2,2,2],[5,7,9,2,2]] with prompt length 1 gives [2, 3].
C10_TokenCount ==
    pc = "counted" =>
        /\ Len(num_tokens) = Len(generated_output.rows)
        /\ \A i \in DOMAIN generated_output.rows :
             \A k \in 0..Len(generated_output.rows[i]) :
                PaddedAfter(generated_output.rows[i], k) =>
                    num_tokens[i] = (1 + k) - input_size
        /\ (generated_output = ExampleGrid /\ input_size = 1) => num_tokens = <<2, 3>>

C10_Witness ==
    /\ pc = "counted"
    /\ generated_output = ExampleGrid
    /\ input_size = 1
    /\ num_tokens = <<2, 3>>

(***************************************************************************)
(* Failures inside an iteration (specification Spec).                      *)
(***************************************************************************)
\* C11: an exception raised while an iteration builds its inputs, calls the
\* model or decodes leaves the run failed: nothing can happen after it (no
\* retry, no later iteration), the run's samples and output stay unset, and a
\* run that returns has raised nothing and holds one sample per model call.
C11_FailurePropagates ==
    /\ raised # "" => pc = "failed"
    /\ pc = "failed" => (raised # "" /\ ~ENABLED Next)
    /\ pc = "failed" => (time_infer = <<>> /\ output = NoneVal)
    /\ pc = "done" => (raised = "" /\ Len(time_infer) >= Calls(events))

\* a looped run that fails after an iteration had already been recorded
C11_Witness ==
    /\ pc = "failed"
    /\ raised = "RuntimeError"
    /\ Len(loop_results.time_infer) >= 1
    /\ time_infer = <<>>

\* C13: get_slice is invoked exactly once per model invocation: a run that
\* has returned after k calls of the model has called get_slice k times.
C13_OneSlicePerInvocation ==
    pc = "done" => SliceCalls(events) = Calls(events)

\* C14: on cuda every call of the model is immediately preceded and
\* immediately followed by a synchronization, on both paths; on cpu no
\* synchronization is performed.
C14_SynchronizedCalls ==
    /\ device = "cuda" =>
         \A i \in DOMAIN events :
            events[i] = "model" =>
               /\ i > 1 /\ events[i - 1] = "synchronize"
               /\ i < Len(events) /\ events[i + 1] = "synchronize"
    /\ device = "cpu" => \A i \in DOMAIN events : events[i] # "synchronize"

\* C17: every generated-token count of a run's result is >= 0, on both
\* paths and whatever the prompt lengths of the batches get_slice hands out.
C17_TokenCountsNonNegative ==
    pc = "done" => \A i \in DOMAIN num_tokens : num_tokens[i] >= 0

\* C16: the looped dispatch gives every supported task type an input and a
\* call shape; for yolo_v7 it is, as on the single-shot path, a list of one
\* tensor per declared input name unpacked positionally, so no looped run of
\* a supported task type fails on the call itself.
C16_LoopedDispatchComplete ==
    /\ (pc = "iter_infer" /\ task_type \in SupportedTasks) =>
           (inputs.t # "None" \/ input_kwarg_name # "")
    /\ (pc = "iter_infer" /\ task_type = "yolo_v7") =>
           /\ inputs = [t |-> "tensor_list", len |-> Len(input_names)]
           /\ input_kwarg_name = ""
    /\ task_type \in SupportedTasks => raised # "TypeError"

\* C18: the softmax is applied to what the model returns for classification
\* only, on the single-shot and on the looped path; for feedforward the
\* result is the raw tensor.
C18_SoftmaxForClassificationOnly ==
    /\ (pc = "done" /\ TakesSingleShot(num_iterations)) =>
           /\ task_type = "classification" => output.fn = "softmax"
           /\ task_type = "feedforward" => output.fn = "raw"
    /\ pc \in {"iter_decode", "iter_record"} =>
           /\ task_type = "classification" => res.fn = "softmax"
           /\ task_type = "feedforward" => res.fn = "raw"

(***************************************************************************)
(* The aggregation (specification SpecAggregate).                          *)
(***************************************************************************)
\* C12: the aggregation of an empty latency sequence, or of one whose total
\* is zero, fails with InsufficientData; a metrics mapping that is returned
\* has no zero and no undefined (zero-denominator) value.
C12_InsufficientData ==
    pc = "aggregated" =>
        /\ (Len(time_infer) = 0 \/ SumSeq(time_infer) = 0) =>
               (metrics.status = "raise" /\ metrics.exc = "InsufficientData")
        /\ metrics.status = "return" =>
               /\ metrics.average_time[1] > 0 /\ metrics.average_time[2] > 0
               /\ metrics.fps[1] > 0 /\ metrics.fps[2] > 0

\* a non-empty sequence of zero latencies was rejected
C12_Witness ==
    /\ pc = "aggregated"
    /\ Len(time_infer) > 0
    /\ SumSeq(time_infer) = 0
    /\ metrics.status = "raise"

(***************************************************************************)
(* The token counter and the positions of the filler (SpecTokens).         *)
(***************************************************************************)
\* the entries of a row that are not the filler
NonFiller(row) == {j \in DOMAIN row : row[j] # DOT_TOKEN}

\* C20: the count of a row depends only on how many of its entries differ
\* from the filler token, not on where they are: it is 1 plus that number
\* minus the prompt length, two rows of a grid with as many non-filler entries
\* get the same count, and a row without filler gets (1 + width) - input_size.
C20_CountIgnoresPositions ==
    pc = "counted" =>
        LET rows == generated_output.rows
        IN  /\ \A i \in DOMAIN rows :
                 num_tokens[i] = (1 + Cardinality(NonFiller(rows[i]))) - input_size
            /\ \A i, k \in DOMAIN rows :
                 Cardinality(NonFiller(rows[i])) = Cardinality(NonFiller(rows[k])) =>
                     num_tokens[i] = num_tokens[k]
            /\ \A i \in DOMAIN rows :
                 NonFiller(rows[i]) = DOMAIN rows[i] =>
                     num_tokens[i] = (1 + Len(rows[i])) - input_size

\* a grid whose rows are permutations of each other, one with the filler
\* before a counted token
C20_Witness ==
    /\ pc = "counted"
    /\ generated_output.rows = << <<5, DOT_TOKEN, 5>>, <<5, 5, DOT_TOKEN>> >>
    /\ input_size = 1
    /\ num_tokens = <<2, 2>>

Finished == pc \in {"done", "failed"}

\* C19 as stated: every run eventually returns or fails, whatever the
\* iteration count >= 0 and the duration >= 0, count 0 with duration 0 included.
C19_AlwaysFinishes == <>Finished

\* C19: a run whose iteration count or whose duration is positive eventually
\* returns or fails, a run past the tracked iterations has neither, and a
\* run that has returned takes no further step.
C19_FinishesWhenBounded ==
    /\ (num_iterations > 0 \/ test_duration > 0) => <>Finished
    /\ []((pc \in {"iter_prepare", "iter_untracked"} /\ iteration >= MaxLoop) =>
             (num_iterations = 0 /\ test_duration = 0))
    /\ [][pc = "done" => pc' = "done"]_vars

\* a run with no count that the deadline has stopped after several iterations
C19_Witness ==
    /\ pc = "done"
    /\ num_iterations = 0
    /\ test_duration > 0
    /\ Len(time_infer) >= 2

(***************************************************************************)
(* TensorFlowParameters (specification SpecParameters).                    *)
(***************************************************************************)
\* the steps of __init__ that validate their argument
CheckedSteps == {k \in DOMAIN InitSteps : InitSteps[k].checked}

\* the steps whose argument is given and fails its validator
FailedSteps ==
    {k \in CheckedSteps : /\ args[InitSteps[k].arg] # None
                          /\ ~IsCorrect(InitSteps[k].arg, args[InitSteps[k].arg])}

\* positions of a string where a token begins
TokenStarts(str) ==
    {i \in DOMAIN str : str[i] # " " /\ (i = 1 \/ str[i - 1] = " ")}

\* C21: the construction either raises ValueError or returns; in both cases
\* every validated field is None or the supplied value, and then that value
\* passes its validator.  It raises exactly when some supplied value fails
\* its validator, with the message of the first such field in declaration
\* order; when it returns every supplied value is stored.  input_shape is
\* stored only when it consists of exactly 3 blank-separated tokens of digits.
C21_ValidatedFields ==
    pc \in {"constructed", "rejected"} =>
        /\ (pc = "rejected") = (raised # "")
        /\ \A k \in CheckedSteps :
              \/ self[InitSteps[k].field] = None
              \/ /\ self[InitSteps[k].field] = args[InitSteps[k].arg]
                 /\ IsCorrect(InitSteps[k].arg, args[InitSteps[k].arg])
        /\ (pc = "rejected") = (FailedSteps # {})
        /\ pc = "rejected" =>
              \E k \in FailedSteps :
                  /\ \A j \in FailedSteps : k <= j
                  /\ raised = InitSteps[k].msg
                  /\ \A j \in DOMAIN InitSteps : j >= k => self[InitSteps[j].field] = None
        /\ pc = "constructed" =>
              \A k \in DOMAIN InitSteps : self[InitSteps[k].field] = args[InitSteps[k].arg]
        /\ self.input_shape # None =>
              /\ Cardinality(TokenStarts(args.input_shape)) = 3
              /\ \A i \in DOMAIN args.input_shape :
                    args.input_shape[i] # " " => args.input_shape[i] \in Digits

\* a call with a right channel swap, a wrong mean and a wrong thread count: the
\* mean decides the error, the channel swap was stored before
C21_Witness ==
    /\ pc = "rejected"
    /\ args.channel_swap # None /\ self.channel_swap = args.channel_swap
    /\ args.mean # None /\ ~mean_is_correct(args.mean)
    /\ args.thread_count # None /\ ~int_value_is_correct(args.thread_count)
    /\ raised = InitSteps[2].msg
    /\ self.nthreads = None

====
